---- MODULE Spec2Model ----
(***************************************************************************)
(* Koopman and SINDy system-identification models of autompc               *)
(* (src/autompc/sysid/koopman.py, src/autompc/sysid/sindy.py).             *)
(*                                                                         *)
(* Numbers are integers.  sin and cos are kept symbolic: a lifted entry is *)
(* a monomial [num, trig], an integer times a sequence of factors          *)
(* <<"sin", a>> / <<"cos", a>> whose argument a is the integer the code    *)
(* passes to np.sin / np.cos.  The regression solvers (scipy pinv, sklearn *)
(* Lasso, stabilize_discrete, pysindy) are external: their results are     *)
(* symbolic values naming the solver and its inputs.                       *)
(***************************************************************************)
EXTENDS Integers, Sequences, FiniteSets, TLC

VARIABLES
    args,       \* the arguments the Koopman constructor was called with
    self,       \* the Koopman object's attributes
    call,       \* the last method call: its name and arguments
    ret,        \* what the last method call returned or raised
    hist,       \* the observations the tracked state has been given, in order
    kstate,     \* the caller's tracked model state (result of traj_to_state / update_state)
    X, Y, U,    \* the matrices Koopman.train builds (koopman.py 138-140)
    heap,       \* the numpy arrays alive: array id -> contents
    A, B,       \* per Koopman object, the id of the array self.A / self.B names (0: not set)
    held,       \* the arrays and the parameter dictionary the caller holds
    ghost,      \* history: where the caller's dictionary and each model's parameters came from
    sindy,      \* the SINDy object's attributes
    frame,      \* the running pred_diff / pred_diff_parallel call: its arguments and locals
    caller      \* the batch the SINDy caller differentiates and the Jacobians it got back

objvars == <<args, self>>
trackvars == <<hist, kstate>>
trainvars == <<X, Y, U>>
heapvars == <<heap, A, B, held, ghost>>
sindyvars == <<sindy, frame, caller>>
koopmanvars == <<args, self, call, ret, hist, kstate, X, Y, U, heap, A, B, held, ghost>>
vars == <<args, self, call, ret, hist, kstate, X, Y, U, heap, A, B, held, ghost,
          sindy, frame, caller>>

(***************************************************************************)
(* Bounds and input sets                                                   *)
(***************************************************************************)
MaxDegree == 3      \* poly_degree ranges over 1..MaxDegree
MaxFreq == 3        \* trig_freq ranges over 1..MaxFreq
MaxTrajLen == 3     \* observations per trajectory
MaxTrajs == 2       \* trajectories given to train
MaxArrays == 8      \* array ids
MaxBatch == 2       \* rows of a batch given to pred_batch

Models == {1, 2}
Refs == 1..MaxArrays

\* Observations of a system with obs_dim = 2.
ObsSet == {<<2, 3>>, <<3, 2>>}
CtrlSet == {<<0>>, <<1>>}

\* A flag argument as Python passes it: a bool, or one of ConfigSpace's strings.
FlagArgs == {[type |-> t, val |-> v] : t \in {"bool", "str"}, v \in {"true", "false"}}

(***************************************************************************)
(* Sequence helpers                                                        *)
(***************************************************************************)
Last(s) == s[Len(s)]

\* range(a, b) as a sequence
Range(a, b) == [k \in 1..(IF b > a THEN b - a ELSE 0) |-> a + k - 1]

RECURSIVE Concat(_)
Concat(ss) == IF ss = <<>> THEN <<>> ELSE Head(ss) \o Concat(Tail(ss))

SeqsUpTo(S, n) == UNION {[1..k -> S] : k \in 1..n}

(***************************************************************************)
(* Lifted entries                                                          *)
(***************************************************************************)
Num(v) == [num |-> v, trig |-> <<>>]
Sin(a) == [num |-> 1, trig |-> << <<"sin", a>> >>]
Cos(a) == [num |-> 1, trig |-> << <<"cos", a>> >>]
Mul(x, y) == [num |-> x.num * y.num, trig |-> x.trig \o y.trig]

(***************************************************************************)
(* Koopman.__init__  (koopman.py 80-106)                                   *)
(***************************************************************************)
\* lines 90-91, 94-95: a str flag becomes (flag == "true"); a bool stays.
CoerceFlag(a) == a.val = "true"

\* lines 98-99: self.product_terms is assigned only inside the str branch.
ProductTermsAttr(a) ==
    IF a.type = "str" THEN (IF a.val = "true" THEN "True" ELSE "False")
    ELSE "unset"

\* line 103: one lambda per element of range(2, 1+poly_degree); each reads the
\* comprehension's variable i when it is called.
PolyFuncs(pb, deg) ==
    IF pb THEN [k \in 1..Len(Range(2, 1 + deg)) |-> [fn |-> "pow", cell |-> "comp_i"]]
    ELSE <<>>

\* lines 105-106: a sin and a cos lambda per element of range(1, 1+poly_degree);
\* each reads __init__'s variable i when it is called.
TrigFuncs(tb, deg) ==
    IF tb THEN Concat([k \in 1..Len(Range(1, 1 + deg)) |->
                          <<[fn |-> "sin", cell |-> "init_i"],
                            [fn |-> "cos", cell |-> "init_i"]>>])
    ELSE <<>>

\* The value a loop variable is left with: the last element of its range
\* (0 stands for a variable no loop has bound).
FinalValue(r) == IF r = <<>> THEN 0 ELSE Last(r)

KoopmanInit(a) ==
    LET pb == CoerceFlag(a.poly_basis)
        tb == CoerceFlag(a.trig_basis)
    IN  [method        |-> a.method,
         lasso_alpha   |-> a.lasso_alpha,
         poly_basis    |-> pb,
         poly_degree   |-> a.poly_degree,
         trig_basis    |-> tb,
         trig_freq     |-> a.trig_freq,
         product_terms |-> ProductTermsAttr(a.product_terms),
         basis_funcs   |-> <<[fn |-> "id", cell |-> "none"]>>
                           \o PolyFuncs(pb, a.poly_degree)
                           \o TrigFuncs(tb, a.poly_degree),
         cells         |-> [none   |-> 0,
                            comp_i |-> IF pb THEN FinalValue(Range(2, 1 + a.poly_degree)) ELSE 0,
                            init_i |-> IF tb THEN FinalValue(Range(1, 1 + a.poly_degree)) ELSE 0]]

\* Calling one basis lambda: its free variable i is read from its cell now.
CallBasis(s, b, x) ==
    LET i == s.cells[b.cell]
    IN  CASE b.fn = "id"  -> Num(x)
          [] b.fn = "pow" -> Num(x ^ i)
          [] b.fn = "sin" -> Sin(i * x)
          [] b.fn = "cos" -> Cos(i * x)

(***************************************************************************)
(* Koopman._apply_basis  (koopman.py 108-118)                              *)
(***************************************************************************)
Raise(e) == [err |-> e, val |-> <<>>]
Return(v) == [err |-> "none", val |-> v]

\* line 109: [b(x) for b in self.basis_funcs for x in state]
TrState(s, state) ==
    LET n == Len(state)
    IN  [p \in 1..(Len(s.basis_funcs) * n) |->
            CallBasis(s, s.basis_funcs[((p - 1) \div n) + 1], state[((p - 1) % n) + 1])]

\* lines 111-115: x*y for i, x and j, y enumerating tr_state, when i < j
PrTerms(tr) ==
    LET n == Len(tr)
        all == [p \in 1..(n * n) |-> <<((p - 1) \div n) + 1, ((p - 1) % n) + 1>>]
        Lt(ij) == ij[1] < ij[2]
        sel == SelectSeq(all, Lt)
    IN  [p \in 1..Len(sel) |-> Mul(tr[sel[p][1]], tr[sel[p][2]])]

apply_basis(s, state) ==
    LET tr_state == TrState(s, state)
    IN  IF s.product_terms = "unset" THEN Raise("AttributeError")
        ELSE IF s.product_terms = "True" THEN Return(tr_state \o PrTerms(tr_state))
        ELSE Return(tr_state)

(***************************************************************************)
(* _transform_observations, traj_to_state, traj_to_states, update_state    *)
(* (koopman.py 120-130)                                                    *)
(***************************************************************************)
\* np.apply_along_axis(self._apply_basis, 1, observations): one row per
\* observation; the first exception ends the call.
transform_observations(s, observations) ==
    LET rows == [t \in 1..Len(observations) |-> apply_basis(s, observations[t])]
    IN  IF \E t \in 1..Len(rows) : rows[t].err # "none"
        THEN Raise(rows[CHOOSE t \in 1..Len(rows) : rows[t].err # "none"].err)
        ELSE Return([t \in 1..Len(rows) |-> rows[t].val])

traj_to_state(s, obs) ==
    LET r == transform_observations(s, obs)
    IN  IF r.err # "none" THEN r ELSE Return(Last(r.val))

traj_to_states(s, obs) == transform_observations(s, obs)

\* A model that keeps the state it was given.
update_state_keeps_state(s, state, new_ctrl, new_obs) == Return(state)

update_state(s, state, new_ctrl, new_obs) == apply_basis(s, new_obs)

(***************************************************************************)
(* State machine of the basis functions and of state tracking              *)
(***************************************************************************)
CtorArgs ==
    [method        : {"lstsq", "lasso", "stable"},
     lasso_alpha   : {1},
     poly_basis    : FlagArgs,
     poly_degree   : 1..MaxDegree,
     trig_basis    : FlagArgs,
     trig_freq     : 1..MaxFreq,
     product_terms : FlagArgs]

NoCall == [op |-> "none"]

NoneHeld == [dict |-> <<>>, arrs |-> <<>>]
NoGhost == [src |-> 0, sync |-> [m \in Models |-> 0], last |-> [m \in Models |-> <<>>]]

Constructed ==
    /\ args \in CtorArgs
    /\ self = KoopmanInit(args)
    /\ call = NoCall
    /\ ret = Return(<<>>)
    /\ hist = <<>>
    /\ kstate = Return(<<>>)
    /\ X = <<>> /\ Y = <<>> /\ U = <<>>
    /\ held = NoneHeld

\* No SINDy object is in use.
NoSindy == sindy = <<>> /\ frame = <<>> /\ caller = <<>>

\* Before train, self.A and self.B do not exist.
Untrained ==
    /\ heap = <<>>
    /\ A = [m \in Models |-> 0]
    /\ B = [m \in Models |-> 0]
    /\ ghost = NoGhost

InitBasis ==
    /\ Constructed
    /\ Untrained
    /\ NoSindy
    /\ args.method = "lstsq"

ApplyBasis ==
    \E state \in ObsSet :
        /\ call' = [op |-> "_apply_basis", obs |-> <<state>>]
        /\ ret' = apply_basis(self, state)
        /\ UNCHANGED <<sindyvars, objvars, trackvars, trainvars, heapvars>>

NextBasis == ApplyBasis

SpecBasis == InitBasis /\ [][NextBasis]_vars

(***************************************************************************)
(* State tracking: a caller that starts from a trajectory and feeds each   *)
(* new observation to update_state.  The flags poly_basis and trig_basis   *)
(* arrive as ConfigSpace's strings (koopman.py 55-67).                     *)
(***************************************************************************)
InitTrack ==
    /\ InitBasis
    /\ args.poly_basis.type = "str"
    /\ args.trig_basis.type = "str"

\* The caller starts tracking from a trajectory.
TrajToState ==
    \E obs \in SeqsUpTo(ObsSet, MaxTrajLen) :
        /\ hist = <<>>
        /\ call' = [op |-> "traj_to_state", obs |-> obs]
        /\ ret' = traj_to_state(self, obs)
        /\ kstate' = ret'
        /\ hist' = obs
        /\ UNCHANGED <<sindyvars, objvars, trainvars, heapvars>>

\* traj_to_states of the observations seen so far
TrajToStates ==
    /\ hist # <<>>
    /\ call' = [op |-> "traj_to_states", obs |-> hist]
    /\ ret' = traj_to_states(self, hist)
    /\ UNCHANGED <<sindyvars, objvars, trackvars, trainvars, heapvars>>

\* The caller hands update_state the tracked state, or any other state, with
\* a new control and observation, and keeps the result.
UpdateState ==
    /\ hist # <<>>
    /\ Len(hist) < MaxTrajLen
    /\ \E new_obs \in ObsSet, new_ctrl \in CtrlSet,
          state \in {kstate.val} \cup {apply_basis(self, o).val : o \in ObsSet} :
        /\ call' = [op |-> "update_state", obs |-> <<new_obs>>]
        /\ ret' = update_state(self, state, new_ctrl, new_obs)
        /\ kstate' = ret'
        /\ hist' = Append(hist, new_obs)
        /\ UNCHANGED <<sindyvars, objvars, trainvars, heapvars>>

NextTrack == ApplyBasis \/ TrajToState \/ TrajToStates \/ UpdateState

SpecTrack == InitTrack /\ [][NextTrack]_vars

(***************************************************************************)
(* Koopman.train  (koopman.py 136-164)                                     *)
(***************************************************************************)
AllButLast(sq) == SubSeq(sq, 1, Len(sq) - 1)

\* M.T for a matrix given as its sequence of rows
Transpose(M) ==
    IF M = <<>> THEN <<>>
    ELSE [c \in 1..Len(M[1]) |-> [r \in 1..Len(M) |-> M[r][c]]]

NumCols(M) == IF M = <<>> THEN 0 ELSE Len(M[1])
Col(M, k) == [r \in 1..Len(M) |-> M[r][k]]

\* line 138: np.concatenate([obs[:-1,:] for obs in trans_obs]).T
TrainX(trans_obs) ==
    Transpose(Concat([i \in 1..Len(trans_obs) |-> AllButLast(trans_obs[i])]))

\* Next observations taken from the trajectories joined end to end.
TrainY_across(trans_obs) == Transpose(Tail(Concat(trans_obs)))

\* line 139: np.concatenate([obs[1:,:] for obs in trans_obs]).T
TrainY(trans_obs) ==
    Transpose(Concat([i \in 1..Len(trans_obs) |-> Tail(trans_obs[i])]))

\* line 140: np.concatenate([traj.ctrls[:-1,:] for traj in trajs]).T
TrainU(trajs) ==
    Transpose(Concat([i \in 1..Len(trajs) |-> AllButLast(trajs[i].ctrls)]))

\* lines 142-162: the solver's answer for the X, U and Y just built, by
\* method, as a symbolic value: the block A (n x n) or B (n x m) of it.
Solve(s, block, x, u, y) ==
    [solver |-> s.method, block |-> block,
     shape |-> <<Len(x), IF block = "A" THEN Len(x) ELSE Len(u)>>,
     alpha |-> IF s.method = "lasso" THEN s.lasso_alpha ELSE 0]

\* The two lowest array ids not in use
FreshPair(used) ==
    LET r1 == CHOOSE r \in Refs \ used : \A q \in Refs \ used : r <= q
        r2 == CHOOSE r \in Refs \ (used \cup {r1}) : \A q \in Refs \ (used \cup {r1}) : r <= q
    IN  <<r1, r2>>

\* The arrays something still names
HeldRefs(h) == {h.dict[k] : k \in DOMAIN h.dict} \cup {h.arrs[k] : k \in DOMAIN h.arrs}
ModelRefs(a, b) == ({a[m] : m \in Models} \cup {b[m] : m \in Models}) \ {0}

\* Arrays nothing names any more are freed.
Collect(h, roots) == [r \in (DOMAIN h) \cap roots |-> h[r]]

\* The trajectories train is given: p trajectories of the given lengths, every
\* observation and control distinct.
TrajsOf(lens) ==
    [i \in 1..Len(lens) |->
        [obs   |-> [t \in 1..lens[i] |-> <<i + 1, t + 1>>],
         ctrls |-> [t \in 1..lens[i] |-> <<10 * i + t>>]]]

InitTrain ==
    /\ Constructed
    /\ Untrained
    /\ NoSindy
    /\ args.poly_basis.type = "str"
    /\ args.trig_basis.type = "str"
    /\ args.trig_freq = 1

\* The caller trains the model it has just constructed.
Train ==
    \E lens \in SeqsUpTo(1..MaxTrajLen, MaxTrajs) :
        LET trajs == TrajsOf(lens)
            tr == [i \in 1..Len(trajs) |-> transform_observations(self, trajs[i].obs)]
            trans_obs == [i \in 1..Len(trajs) |-> tr[i].val]
            x == TrainX(trans_obs)
            y == TrainY(trans_obs)
            u == TrainU(trajs)
            new == FreshPair(HeldRefs(held) \cup ModelRefs([A EXCEPT ![1] = 0], [B EXCEPT ![1] = 0]))
        IN  /\ call.op = "none"
            /\ call' = [op |-> "train", trajs |-> trajs]
            /\ IF \E i \in 1..Len(tr) : tr[i].err # "none"
               THEN \* line 137 raised: nothing else was assigned
                    /\ ret' = Raise(tr[CHOOSE i \in 1..Len(tr) : tr[i].err # "none"].err)
                    /\ UNCHANGED <<trainvars, heapvars>>
               ELSE /\ ret' = Return(<<>>)
                    /\ X' = x /\ Y' = y /\ U' = u
                    /\ A' = [A EXCEPT ![1] = new[1]]
                    /\ B' = [B EXCEPT ![1] = new[2]]
                    /\ heap' = Collect((new[1] :> Solve(self, "A", x, u, y))
                                       @@ (new[2] :> Solve(self, "B", x, u, y)) @@ heap,
                                       HeldRefs(held) \cup ModelRefs(A', B'))
                    /\ UNCHANGED <<held, ghost>>
            /\ UNCHANGED <<sindyvars, objvars, trackvars>>

NextTrain == Train

SpecTrain == InitTrain /\ [][NextTrain]_vars

(***************************************************************************)
(* Koopman.pred, pred_batch, pred_diff, to_linear  (koopman.py 166-181)    *)
(***************************************************************************)
RECURSIVE Dot(_, _)
Dot(a, b) == IF a = <<>> THEN 0 ELSE Head(a) * Head(b) + Dot(Tail(a), Tail(b))

\* M @ v, M @ N and + on arrays given as sequences of rows
MatVec(M, v) == [r \in 1..Len(M) |-> Dot(M[r], v)]
MatMul(M, N) == [r \in 1..Len(M) |-> [c \in 1..NumCols(N) |-> Dot(M[r], Col(N, c))]]
VecAdd(a, b) == [k \in 1..Len(a) |-> a[k] + b[k]]
MatAdd(M, N) == [r \in 1..Len(M) |-> VecAdd(M[r], N[r])]

\* line 167
pred(Am, Bm, state, ctrl) == VecAdd(MatVec(Am, state), MatVec(Bm, ctrl))

\* The batch result left untransposed.
pred_batch_untransposed(Am, Bm, states, ctrls) ==
    MatAdd(MatMul(Am, Transpose(states)), MatMul(Bm, Transpose(ctrls)))

\* lines 171-173
pred_batch(Am, Bm, states, ctrls) ==
    Transpose(MatAdd(MatMul(Am, Transpose(states)), MatMul(Bm, Transpose(ctrls))))

\* np.copy of arrays a and b of heap h: two new arrays with their contents.
\* Each gives the heap after the call and the ids returned.
CopyPair(h, a, b, used) ==
    LET new == FreshPair(used)
    IN  [heap |-> (new[1] :> h[a]) @@ (new[2] :> h[b]) @@ h, refs |-> new]

\* The arrays themselves, not copies.
SamePair(h, a, b, used) == [heap |-> h, refs |-> <<a, b>>]

\* line 178: np.copy(self.A), np.copy(self.B)
pred_diff_jacs(h, a, b, used) == CopyPair(h, a, b, used)

\* line 181
to_linear(h, a, b, used) == CopyPair(h, a, b, used)

\* lines 184-185
get_parameters(h, a, b, used) == CopyPair(h, a, b, used)

\* lines 188-189: copies of params["A"] and params["B"]
set_parameters(h, pa, pb, used) == CopyPair(h, pa, pb, used)

Trained(m) == A[m] # 0 /\ B[m] # 0

PredOn(m, state, ctrl) ==
    /\ Trained(m)
    /\ call' = [op |-> "pred", m |-> m, state |-> state, ctrl |-> ctrl]
    /\ ret' = Return(pred(heap[A[m]], heap[B[m]], state, ctrl))
    /\ UNCHANGED <<sindyvars, objvars, trackvars, trainvars, heapvars>>

PredBatchOn(m, states, ctrls) ==
    /\ Trained(m)
    /\ call' = [op |-> "pred_batch", m |-> m, states |-> states, ctrls |-> ctrls]
    /\ ret' = Return(pred_batch(heap[A[m]], heap[B[m]], states, ctrls))
    /\ UNCHANGED <<sindyvars, objvars, trackvars, trainvars, heapvars>>

\* The caller keeps the two arrays returned in place of those it held.
PredDiffOn(m, state, ctrl) ==
    /\ Trained(m)
    /\ LET r == pred_diff_jacs(heap, A[m], B[m],
                               ModelRefs(A, B) \cup HeldRefs([held EXCEPT !.arrs = <<>>]))
       IN  /\ call' = [op |-> "pred_diff", m |-> m, state |-> state, ctrl |-> ctrl]
           /\ ret' = Return(pred(heap[A[m]], heap[B[m]], state, ctrl))
           /\ held' = [held EXCEPT !.arrs = r.refs]
           /\ heap' = Collect(r.heap, ModelRefs(A, B) \cup HeldRefs(held'))
    /\ UNCHANGED <<sindyvars, objvars, trackvars, trainvars, A, B, ghost>>

ToLinearOn(m) ==
    /\ Trained(m)
    /\ LET r == to_linear(heap, A[m], B[m],
                          ModelRefs(A, B) \cup HeldRefs([held EXCEPT !.arrs = <<>>]))
       IN  /\ call' = [op |-> "to_linear", m |-> m]
           /\ ret' = Return(<<>>)
           /\ held' = [held EXCEPT !.arrs = r.refs]
           /\ heap' = Collect(r.heap, ModelRefs(A, B) \cup HeldRefs(held'))
    /\ UNCHANGED <<sindyvars, objvars, trackvars, trainvars, A, B, ghost>>

(***************************************************************************)
(* A trained model used for prediction                                     *)
(***************************************************************************)
AMats == [1..2 -> [1..2 -> 0..1]]
BMats == [1..2 -> [1..1 -> 1..2]]
StateSet == [1..2 -> 1..2]
BatchRows == {<<<<1, 2>>, <<0>>>>, <<<<2, 1>>, <<1>>>>, <<<<2, 2>>, <<1>>>>}

DefaultArgs ==
    [method |-> "lstsq", lasso_alpha |-> 1,
     poly_basis |-> [type |-> "bool", val |-> "false"], poly_degree |-> 1,
     trig_basis |-> [type |-> "bool", val |-> "false"], trig_freq |-> 1,
     product_terms |-> [type |-> "str", val |-> "false"]]

\* After train: model 1 names two arrays holding what the solver returned.
TrainedWith(Am, Bm) ==
    /\ Constructed
    /\ NoSindy
    /\ args = DefaultArgs
    /\ heap = (1 :> Am) @@ (2 :> Bm)
    /\ A = [m \in Models |-> IF m = 1 THEN 1 ELSE 0]
    /\ B = [m \in Models |-> IF m = 1 THEN 2 ELSE 0]
    /\ ghost = [NoGhost EXCEPT !.last[1] = <<Am, Bm>>]

InitLinear == \E Am \in AMats, Bm \in BMats : TrainedWith(Am, Bm)

Pred == \E state \in StateSet, ctrl \in CtrlSet : PredOn(1, state, ctrl)

PredBatch ==
    \E rows \in SeqsUpTo(BatchRows, MaxBatch) :
        PredBatchOn(1, [r \in 1..Len(rows) |-> rows[r][1]],
                       [r \in 1..Len(rows) |-> rows[r][2]])

PredDiff == \E state \in StateSet, ctrl \in CtrlSet : PredDiffOn(1, state, ctrl)

ToLinear == ToLinearOn(1)

NextLinear == Pred \/ PredBatch \/ PredDiff \/ ToLinear

SpecLinear == InitLinear /\ [][NextLinear]_vars

(***************************************************************************)
(* Parameter exchange: get_parameters, set_parameters (koopman.py 183-189) *)
(* between two Koopman objects and a caller that keeps, rewrites and       *)
(* passes back the arrays it was handed.                                   *)
(***************************************************************************)
ParamA == {<<<<1, 2>>, <<3, 4>>>>, <<<<0, 1>>, <<1, 0>>>>}
ParamB == {<<<<1>>, <<2>>>>, <<<<0>>, <<1>>>>}

InitParams == \E Am \in ParamA, Bm \in ParamB : TrainedWith(Am, Bm)

\* params = model.get_parameters(); the caller keeps the dictionary.
GetParameters ==
    \E m \in Models :
        /\ Trained(m)
        /\ LET r == get_parameters(heap, A[m], B[m],
                                   ModelRefs(A, B) \cup HeldRefs([held EXCEPT !.dict = <<>>]))
           IN  /\ held' = [held EXCEPT !.dict = r.refs]
               /\ heap' = Collect(r.heap, ModelRefs(A, B) \cup HeldRefs(held'))
        /\ call' = [op |-> "get_parameters", m |-> m]
        /\ ret' = Return(<<>>)
        /\ ghost' = [ghost EXCEPT !.src = m]
        /\ UNCHANGED <<sindyvars, objvars, trackvars, trainvars, A, B>>

\* model.set_parameters(params) with the dictionary the caller holds.  The
\* history notes whose parameters the model now has: its own (the dictionary
\* is its own get_parameters, untouched), another model's, or the caller's.
SetParameters ==
    \E m \in Models :
        /\ held.dict # <<>>
        /\ LET r == set_parameters(heap, held.dict[1], held.dict[2],
                                   HeldRefs(held) \cup ModelRefs([A EXCEPT ![m] = 0],
                                                                 [B EXCEPT ![m] = 0]))
               own == ghost.src = m
           IN  /\ A' = [A EXCEPT ![m] = r.refs[1]]
               /\ B' = [B EXCEPT ![m] = r.refs[2]]
               /\ heap' = Collect(r.heap, ModelRefs(A', B') \cup HeldRefs(held))
               /\ ghost' = [ghost EXCEPT
                     !.last[m] = IF own THEN @
                                 ELSE IF ghost.src # 0 THEN ghost.last[ghost.src]
                                 ELSE <<heap[held.dict[1]], heap[held.dict[2]]>>,
                     !.sync = [x \in Models |->
                                 IF own THEN @[x]
                                 ELSE IF x = m THEN ghost.src
                                 ELSE IF @[x] = m THEN 0 ELSE @[x]]]
        /\ call' = [op |-> "set_parameters", m |-> m]
        /\ ret' = Return(<<>>)
        /\ UNCHANGED <<sindyvars, objvars, trackvars, trainvars, held>>

\* The caller overwrites an array it holds: arr[:] = v.
MutateArray ==
    \E r \in HeldRefs(held), v \in ParamA \cup ParamB :
        /\ NumCols(v) = NumCols(heap[r])
        /\ v # heap[r]
        /\ heap' = [heap EXCEPT ![r] = v]
        /\ ghost' = [ghost EXCEPT !.src = IF r \in {held.dict[k] : k \in DOMAIN held.dict}
                                          THEN 0 ELSE @]
        /\ call' = [op |-> "mutate", m |-> 0]
        /\ ret' = Return(<<>>)
        /\ UNCHANGED <<sindyvars, objvars, trackvars, trainvars, A, B, held>>

\* The caller puts arrays it got from to_linear / pred_diff in its dictionary:
\* params["A"], params["B"] = arrs.
DictAssign ==
    /\ held.dict # <<>>
    /\ held.arrs # <<>>
    /\ held.dict # held.arrs
    /\ held' = [held EXCEPT !.dict = held.arrs]
    /\ heap' = Collect(heap, ModelRefs(A, B) \cup HeldRefs(held'))
    /\ ghost' = [ghost EXCEPT !.src = 0]
    /\ call' = [op |-> "dict_assign", m |-> 0]
    /\ ret' = Return(<<>>)
    /\ UNCHANGED <<sindyvars, objvars, trackvars, trainvars, A, B>>

ToLinearAny == \E m \in Models : ToLinearOn(m)

PredDiffAny == \E m \in Models : PredDiffOn(m, <<1, 2>>, <<1>>)

NextParams ==
    GetParameters \/ SetParameters \/ MutateArray \/ DictAssign \/ ToLinearAny \/ PredDiffAny

SpecParams == InitParams /\ [][NextParams]_vars

(***************************************************************************)
(* SINDy  (sindy.py 51-237)                                                *)
(*                                                                         *)
(* A one-argument function of the library or of the gradient lists is      *)
(* [kind, k, scale]: scale * x ("id"), scale ("one"), scale * x^k ("pow"), *)
(* scale * sin(k*x), scale * cos(k*x).  A two-argument function is the     *)
(* product [x, y] of a one-argument function of each argument.             *)
(***************************************************************************)
SU(kind, k, scale) == [kind |-> kind, k |-> k, scale |-> scale]

EvalU(f, x) ==
    CASE f.kind = "id"  -> Num(f.scale * x)
      [] f.kind = "one" -> Num(f.scale)
      [] f.kind = "pow" -> Num(f.scale * (x ^ f.k))
      [] f.kind = "sin" -> [num |-> f.scale, trig |-> << <<"sin", f.k * x>> >>]
      [] f.kind = "cos" -> [num |-> f.scale, trig |-> << <<"cos", f.k * x>> >>]

EvalB(f, a, b) == Mul(EvalU(f.x, a), EvalU(f.y, b))

Arity(f) == IF "kind" \in DOMAIN f THEN 1 ELSE 2

\* lines 98-101
TrigLibrary(freq) == <<SU("sin", freq, 1), SU("cos", freq, 1)>>

\* lines 102-105: f * cos(f*x), f * -sin(f*x)
TrigGradients(freq) == <<SU("cos", freq, freq), SU("sin", freq, 0 - freq)>>

\* lines 112-117: x ** d and d * x ** (d-1)
PolyLibrary(deg) == <<SU("pow", deg, 1)>>
PolyGradients(deg) == <<SU("pow", deg - 1, deg)>>

\* lines 122-127: x sin(y), x cos(y), y sin(x), y cos(x)
InteractionLibrary ==
    <<[x |-> SU("id", 1, 1),  y |-> SU("sin", 1, 1)],
      [x |-> SU("id", 1, 1),  y |-> SU("cos", 1, 1)],
      [x |-> SU("sin", 1, 1), y |-> SU("id", 1, 1)],
      [x |-> SU("cos", 1, 1), y |-> SU("id", 1, 1)]>>

\* lines 128-133: the pairs (d/dx, d/dy)
InteractionGradients ==
    <<[d1 |-> [x |-> SU("one", 0, 1),  y |-> SU("sin", 1, 1)],
       d2 |-> [x |-> SU("id", 1, 1),   y |-> SU("cos", 1, 1)]],
      [d1 |-> [x |-> SU("one", 0, 1),  y |-> SU("cos", 1, 1)],
       d2 |-> [x |-> SU("id", 1, -1),  y |-> SU("sin", 1, 1)]],
      [d1 |-> [x |-> SU("cos", 1, 1),  y |-> SU("id", 1, 1)],
       d2 |-> [x |-> SU("sin", 1, 1),  y |-> SU("one", 0, 1)]],
      [d1 |-> [x |-> SU("sin", 1, 1),  y |-> SU("id", 1, -1)],
       d2 |-> [x |-> SU("cos", 1, 1),  y |-> SU("one", 0, 1)]]>>

\* lines 85-127
library_functions(s) ==
    <<SU("id", 1, 1)>>
    \o (IF s.trig_basis THEN Concat([q \in 1..Len(Range(1, s.trig_freq + 1)) |->
            TrigLibrary(Range(1, s.trig_freq + 1)[q])]) ELSE <<>>)
    \o (IF s.poly_basis THEN Concat([q \in 1..Len(Range(2, s.poly_degree + 1)) |->
            PolyLibrary(Range(2, s.poly_degree + 1)[q])]) ELSE <<>>)
    \o (IF s.trig_interaction THEN InteractionLibrary ELSE <<>>)

\* lines 88-90, 102-105, 115-117
function_gradients(s) ==
    <<SU("one", 0, 1)>>
    \o (IF s.trig_basis THEN Concat([q \in 1..Len(Range(1, s.trig_freq + 1)) |->
            TrigGradients(Range(1, s.trig_freq + 1)[q])]) ELSE <<>>)
    \o (IF s.poly_basis THEN Concat([q \in 1..Len(Range(2, s.poly_degree + 1)) |->
            PolyGradients(Range(2, s.poly_degree + 1)[q])]) ELSE <<>>)

\* lines 91, 128-133
function_gradients2(s) == IF s.trig_interaction THEN InteractionGradients ELSE <<>>

\* Pairs j < k of the variables 0..nv-1, in itertools.combinations order
Pairs(nv) ==
    LET all == [q \in 1..(nv * nv) |-> <<(q - 1) \div nv, (q - 1) % nv>>]
    IN  SelectSeq(all, LAMBDA jk : jk[1] < jk[2])

\* lines 141-148: the features of ps.CustomLibrary fitted on the states joined
\* with the controls: each function in turn, over every variable (one
\* argument) or every pair of variables (two arguments).
Features(lib, nv) ==
    Concat([q \in 1..Len(lib) |->
        IF Arity(lib[q]) = 1
        THEN [v \in 1..nv |-> [f |-> lib[q], vars |-> <<v - 1>>]]
        ELSE [pr \in 1..Len(Pairs(nv)) |-> [f |-> lib[q], vars |-> Pairs(nv)[pr]]]])

\* lines 52-69
SINDyInit(a, system) ==
    [system           |-> system,
     poly_basis       |-> CoerceFlag(a.poly_basis),
     poly_degree      |-> a.poly_degree,
     trig_basis       |-> CoerceFlag(a.trig_basis),
     trig_freq        |-> a.trig_freq,
     trig_interaction |-> TRUE,
     trained          |-> FALSE]

\* lines 77-79
state_dim(s) == s.system.obs_dim

\* lines 81-149: the gradient lists and the fitted model, whose coefficient
\* matrix has one row per state and one column per feature.
sindy_train(s) ==
    [system              |-> s.system,
     poly_basis          |-> s.poly_basis,
     poly_degree         |-> s.poly_degree,
     trig_basis          |-> s.trig_basis,
     trig_freq           |-> s.trig_freq,
     trig_interaction    |-> s.trig_interaction,
     trained             |-> TRUE,
     function_gradients  |-> function_gradients(s),
     function_gradients2 |-> function_gradients2(s),
     model               |-> [library |-> library_functions(s),
                              features |-> Features(library_functions(s),
                                                    s.system.obs_dim + s.system.ctrl_dim)]]

\* coeff[i, coeff_idx] of self.model.coefficients()
Coeff(i, coeff_idx) == <<i, coeff_idx>>

Term(c, v) == [coef |-> c, val |-> v]

\* np.zeros((rows, cols)): every entry an empty sum
Zeros(rows, cols) == [i \in 1..rows |-> [j \in 1..cols |-> <<>>]]

(***************************************************************************)
(* The loop nest of pred_diff and pred_diff_parallel (lines 167-196 and    *)
(* 206-235).  frame.loc names the loop body about to run: "state" (171 /   *)
(* 210), "ctrl" (174 / 213), "pair" (179-196 / 218-235); i, j, k and       *)
(* coeff_idx count from 0 as in the code, g indexes the gradient list.     *)
(***************************************************************************)
NextRow(s, fr) ==
    IF fr.i + 1 < state_dim(s)
    THEN [fr EXCEPT !.i = @ + 1, !.coeff_idx = 0, !.loc = "state", !.g = 1, !.j = 0, !.k = 0]
    ELSE [fr EXCEPT !.loc = "done", !.g = 0, !.j = 0, !.k = 0]

EnterPairs(s, fr, g) ==
    IF g <= Len(s.function_gradients2) /\ state_dim(s) + s.system.ctrl_dim >= 2
    THEN [fr EXCEPT !.loc = "pair", !.g = g, !.j = 0, !.k = 1]
    ELSE NextRow(s, fr)

NextGradient(s, fr) ==
    IF fr.g < Len(s.function_gradients)
    THEN [fr EXCEPT !.loc = "state", !.g = @ + 1, !.j = 0, !.k = 0]
    ELSE EnterPairs(s, fr, 1)

Advance(s, fr) ==
    LET n == state_dim(s)
        m == s.system.ctrl_dim
    IN  CASE fr.loc = "state" ->
                IF fr.j + 1 < n THEN [fr EXCEPT !.j = @ + 1]
                ELSE IF m > 0 THEN [fr EXCEPT !.loc = "ctrl", !.j = 0]
                ELSE NextGradient(s, fr)
          [] fr.loc = "ctrl" ->
                IF fr.j + 1 < m THEN [fr EXCEPT !.j = @ + 1]
                ELSE NextGradient(s, fr)
          [] fr.loc = "pair" ->
                IF fr.k + 1 < n + m THEN [fr EXCEPT !.k = @ + 1]
                ELSE IF fr.j + 2 < n + m THEN [fr EXCEPT !.j = @ + 1, !.k = fr.j + 2]
                ELSE EnterPairs(s, fr, fr.g + 1)

\* Reading coeff[i, coeff_idx]: past the last column numpy raises.
InRange(s, fr) == fr.coeff_idx < Len(s.model.features)
Raised(fr) == [fr EXCEPT !.loc = "IndexError"]

\* coeff_idx += 1; the history notes the index this body used.
Bump(fr) ==
    [fr EXCEPT !.visited[fr.i + 1] = Append(@, fr.coeff_idx), !.coeff_idx = @ + 1]

(***************************************************************************)
(* SINDy.pred_diff  (sindy.py 161-198)                                     *)
(***************************************************************************)
\* lines 171-172
pred_diff_state(s, fr) ==
    LET gr == s.function_gradients[fr.g]
    IN  Bump([fr EXCEPT !.state_jac[fr.i + 1][fr.j + 1] =
                 Append(@, Term(Coeff(fr.i, fr.coeff_idx), EvalU(gr, fr.state[fr.j + 1])))])

\* lines 174-175
pred_diff_ctrl(s, fr) ==
    LET gr == s.function_gradients[fr.g]
    IN  Bump([fr EXCEPT !.ctrl_jac[fr.i + 1][fr.j + 1] =
                 Append(@, Term(Coeff(fr.i, fr.coeff_idx), EvalU(gr, fr.ctrl[fr.j + 1])))])

\* lines 188-191 and 192-195: += into state_jac or ctrl_jac, by variable
AddTo(s, fr, v, term) ==
    IF v < state_dim(s)
    THEN [fr EXCEPT !.state_jac[fr.i + 1][v + 1] = Append(@, term)]
    ELSE [fr EXCEPT !.ctrl_jac[fr.i + 1][v - state_dim(s) + 1] = Append(@, term)]

\* The two partial derivatives added to each other's variable.
pred_diff_pair_crossed(s, fr) ==
    LET n == state_dim(s)
        gr == s.function_gradients2[fr.g]
        val1 == IF fr.j < n THEN fr.state[fr.j + 1] ELSE fr.ctrl[fr.j - n + 1]
        val2 == IF fr.k < n THEN fr.state[fr.k + 1] ELSE fr.ctrl[fr.k - n + 1]
        gr1 == EvalB(gr.d1, val1, val2)
        gr2 == EvalB(gr.d2, val1, val2)
        c == Coeff(fr.i, fr.coeff_idx)
    IN  Bump(AddTo(s, AddTo(s, fr, fr.j, Term(c, gr2)), fr.k, Term(c, gr1)))

\* lines 179-196
pred_diff_pair(s, fr) ==
    LET n == state_dim(s)
        gr == s.function_gradients2[fr.g]
        val1 == IF fr.j < n THEN fr.state[fr.j + 1] ELSE fr.ctrl[fr.j - n + 1]
        val2 == IF fr.k < n THEN fr.state[fr.k + 1] ELSE fr.ctrl[fr.k - n + 1]
        gr1 == EvalB(gr.d1, val1, val2)
        gr2 == EvalB(gr.d2, val1, val2)
        c == Coeff(fr.i, fr.coeff_idx)
    IN  Bump(AddTo(s, AddTo(s, fr, fr.j, Term(c, gr1)), fr.k, Term(c, gr2)))

(***************************************************************************)
(* SINDy.pred_diff_parallel  (sindy.py 200-237)                            *)
(***************************************************************************)
\* A gradient applied to a column of the batch: elementwise, except that
\* lambda x : 1 gives the plain number 1, which += then broadcasts.
EvalColumn(gr, col) ==
    IF gr.kind = "one" THEN [p \in 1..Len(col) |-> Num(gr.scale)]
    ELSE [p \in 1..Len(col) |-> EvalU(gr, col[p])]

Column(rows, j) == [p \in 1..Len(rows) |-> rows[p][j]]

\* state_jac[:, i, j] += c * vals  /  ctrl_jac[:, i, j - n] += c * vals
AddToSlice(s, fr, v, c, vals) ==
    IF v < state_dim(s)
    THEN [fr EXCEPT !.state_jac =
             [p \in 1..Len(@) |-> [@[p] EXCEPT ![fr.i + 1][v + 1] = Append(@, Term(c, vals[p]))]]]
    ELSE [fr EXCEPT !.ctrl_jac =
             [p \in 1..Len(@) |->
                 [@[p] EXCEPT ![fr.i + 1][v - state_dim(s) + 1] = Append(@, Term(c, vals[p]))]]]

\* The control loop run without moving to the next coefficient.
pred_diff_parallel_ctrl_stuck(s, fr) ==
    LET gr == s.function_gradients[fr.g]
    IN  AddToSlice(s, fr, state_dim(s) + fr.j, Coeff(fr.i, fr.coeff_idx),
                   EvalColumn(gr, Column(fr.ctrl, fr.j + 1)))

\* lines 210-211
pred_diff_parallel_state(s, fr) ==
    LET gr == s.function_gradients[fr.g]
    IN  Bump(AddToSlice(s, fr, fr.j, Coeff(fr.i, fr.coeff_idx),
                        EvalColumn(gr, Column(fr.state, fr.j + 1))))

\* lines 213-214
pred_diff_parallel_ctrl(s, fr) ==
    LET gr == s.function_gradients[fr.g]
    IN  Bump(AddToSlice(s, fr, state_dim(s) + fr.j, Coeff(fr.i, fr.coeff_idx),
                        EvalColumn(gr, Column(fr.ctrl, fr.j + 1))))

\* lines 218-235
pred_diff_parallel_pair(s, fr) ==
    LET n == state_dim(s)
        gr == s.function_gradients2[fr.g]
        val1 == IF fr.j < n THEN Column(fr.state, fr.j + 1) ELSE Column(fr.ctrl, fr.j - n + 1)
        val2 == IF fr.k < n THEN Column(fr.state, fr.k + 1) ELSE Column(fr.ctrl, fr.k - n + 1)
        gr1 == [p \in 1..Len(val1) |-> EvalB(gr.d1, val1[p], val2[p])]
        gr2 == [p \in 1..Len(val1) |-> EvalB(gr.d2, val1[p], val2[p])]
        c == Coeff(fr.i, fr.coeff_idx)
    IN  Bump(AddToSlice(s, AddToSlice(s, fr, fr.j, c, gr1), fr.k, c, gr2))

(***************************************************************************)
(* State machine: a trained SINDy model and a caller that differentiates a *)
(* batch with pred_diff_parallel and each of its rows with pred_diff.      *)
(***************************************************************************)
StrFlags == {[type |-> "str", val |-> v] : v \in {"true", "false"}}

SindyCtorArgs ==
    [poly_basis : StrFlags, poly_degree : {2, 3},
     trig_basis : StrFlags, trig_freq : {1, 2}]

Systems == {[obs_dim |-> 1, ctrl_dim |-> 1], [obs_dim |-> 2, ctrl_dim |-> 1]}

\* (state, control) rows a caller may put in a batch
SindyRows(system) ==
    IF system.obs_dim = 1
    THEN {<<<<2>>, <<1>>>>, <<<<3>>, <<4>>>>}
    ELSE {<<<<2, 3>>, <<1>>>>, <<<<3, 2>>, <<4>>>>}

Idle == [fn |-> "none", loc |-> "none"]
NoResult == [done |-> FALSE]

InitSindy ==
    /\ args = DefaultArgs
    /\ self = KoopmanInit(args)
    /\ call = NoCall
    /\ ret = Return(<<>>)
    /\ hist = <<>>
    /\ kstate = Return(<<>>)
    /\ X = <<>> /\ Y = <<>> /\ U = <<>>
    /\ held = NoneHeld
    /\ Untrained
    /\ \E a \in SindyCtorArgs, system \in Systems :
          /\ sindy = SINDyInit(a, system)
          /\ \E rows \in SeqsUpTo(SindyRows(system), MaxBatch) :
                caller = [states |-> [p \in 1..Len(rows) |-> rows[p][1]],
                          ctrls  |-> [p \in 1..Len(rows) |-> rows[p][2]],
                          par    |-> NoResult,
                          single |-> [p \in 1..Len(rows) |-> NoResult]]
    /\ frame = Idle

SindyTrain ==
    /\ ~sindy.trained
    /\ sindy' = sindy_train(sindy)
    /\ UNCHANGED <<koopmanvars, frame, caller>>

NewFrame(fn, row, state, ctrl, sj, cj) ==
    [fn |-> fn, row |-> row, state |-> state, ctrl |-> ctrl,
     i |-> 0, loc |-> "state", g |-> 1, j |-> 0, k |-> 0, coeff_idx |-> 0,
     state_jac |-> sj, ctrl_jac |-> cj,
     visited |-> [i \in 1..state_dim(sindy) |-> <<>>]]

\* lines 164-168; the caller takes the rows of its batch in order.
CallPredDiff ==
    \E row \in 1..Len(caller.states) :
        /\ sindy.trained
        /\ frame.fn = "none"
        /\ ~caller.single[row].done
        /\ \A q \in 1..(row - 1) : caller.single[q].done
        /\ frame' = NewFrame("pred_diff", row, caller.states[row], caller.ctrls[row],
                             Zeros(state_dim(sindy), state_dim(sindy)),
                             Zeros(state_dim(sindy), sindy.system.ctrl_dim))
        /\ UNCHANGED <<koopmanvars, sindy, caller>>

\* lines 202-207
CallPredDiffParallel ==
    /\ sindy.trained
    /\ frame.fn = "none"
    /\ ~caller.par.done
    /\ LET p == Len(caller.states)
       IN  frame' = NewFrame("pred_diff_parallel", 0, caller.states, caller.ctrls,
                [r \in 1..p |-> Zeros(state_dim(sindy), state_dim(sindy))],
                [r \in 1..p |-> Zeros(state_dim(sindy), sindy.system.ctrl_dim)])
    /\ UNCHANGED <<koopmanvars, sindy, caller>>

\* A loop body reads coeff[i, coeff_idx] (or raises), updates the Jacobians
\* and the index, and the loop nest moves to its next iteration.
Guarded(fr, after) == IF InRange(sindy, fr) THEN Advance(sindy, after) ELSE Raised(fr)

PredDiffState ==
    /\ frame.fn = "pred_diff"
    /\ frame.loc = "state"
    /\ frame' = Guarded(frame, (pred_diff_state(sindy, frame)))
    /\ UNCHANGED <<koopmanvars, sindy, caller>>

PredDiffCtrl ==
    /\ frame.fn = "pred_diff"
    /\ frame.loc = "ctrl"
    /\ frame' = Guarded(frame, (pred_diff_ctrl(sindy, frame)))
    /\ UNCHANGED <<koopmanvars, sindy, caller>>

PredDiffPair ==
    /\ frame.fn = "pred_diff"
    /\ frame.loc = "pair"
    /\ frame' = Guarded(frame, (pred_diff_pair(sindy, frame)))
    /\ UNCHANGED <<koopmanvars, sindy, caller>>

PredDiffParallelState ==
    /\ frame.fn = "pred_diff_parallel"
    /\ frame.loc = "state"
    /\ frame' = Guarded(frame, (pred_diff_parallel_state(sindy, frame)))
    /\ UNCHANGED <<koopmanvars, sindy, caller>>

PredDiffParallelCtrl ==
    /\ frame.fn = "pred_diff_parallel"
    /\ frame.loc = "ctrl"
    /\ frame' = Guarded(frame, (pred_diff_parallel_ctrl(sindy, frame)))
    /\ UNCHANGED <<koopmanvars, sindy, caller>>

PredDiffParallelPair ==
    /\ frame.fn = "pred_diff_parallel"
    /\ frame.loc = "pair"
    /\ frame' = Guarded(frame, (pred_diff_parallel_pair(sindy, frame)))
    /\ UNCHANGED <<koopmanvars, sindy, caller>>

Result(fr) ==
    [done |-> TRUE, state_jac |-> fr.state_jac, ctrl_jac |-> fr.ctrl_jac,
     visited |-> fr.visited]

\* line 198
PredDiffReturn ==
    /\ frame.fn = "pred_diff"
    /\ frame.loc = "done"
    /\ caller' = [caller EXCEPT !.single[frame.row] = Result(frame)]
    /\ frame' = Idle
    /\ UNCHANGED <<koopmanvars, sindy>>

\* line 237
PredDiffParallelReturn ==
    /\ frame.fn = "pred_diff_parallel"
    /\ frame.loc = "done"
    /\ caller' = [caller EXCEPT !.par = Result(frame)]
    /\ frame' = Idle
    /\ UNCHANGED <<koopmanvars, sindy>>

NextSindy ==
    \/ SindyTrain
    \/ CallPredDiff \/ PredDiffState \/ PredDiffCtrl \/ PredDiffPair \/ PredDiffReturn
    \/ CallPredDiffParallel \/ PredDiffParallelState \/ PredDiffParallelCtrl
    \/ PredDiffParallelPair \/ PredDiffParallelReturn

SpecSindy == InitSindy /\ [][NextSindy]_vars

(***************************************************************************)
(* Claims about the basis functions                                        *)
(***************************************************************************)
\* The entries of a lifted state that come from the basis functions (its
\* first len(basis_funcs) * obs_dim entries) and belong to component c.
BasisEntries(lifted, state, c) ==
    LET n == Len(state)
        m == Len(self.basis_funcs) * n
    IN  SelectSeq([p \in 1..m |-> [e |-> lifted[p], c |-> ((p - 1) % n) + 1]],
                  LAMBDA r : r.c = c)

ToSet(sq) == {sq[p] : p \in 1..Len(sq)}

\* C1: with poly_basis true and poly_degree = D >= 2, the lifted state holds,
\* for every observation component x, exactly x and x^d for every d in 2..D:
\* D numeric entries, one per degree 1..D, and no other power.
C1_PolyBasisHasEveryDegree ==
    (/\ call.op = "_apply_basis"
     /\ ret.err = "none"
     /\ CoerceFlag(args.poly_basis)
     /\ args.poly_degree >= 2)
    => \A c \in 1..Len(call.obs[1]) :
          LET x == call.obs[1][c]
              be == BasisEntries(ret.val, call.obs[1], c)
              numeric == SelectSeq(be, LAMBDA r : r.e.trig = <<>>)
          IN  /\ {r.e : r \in ToSet(numeric)} = {Num(x ^ d) : d \in 1..args.poly_degree}
              /\ Len(numeric) = args.poly_degree

\* C2: with trig_basis true and trig_freq = F, the lifted state holds, for
\* every observation component x, exactly sin(k*x) and cos(k*x) for every k
\* in 1..F (2F trig entries), whatever poly_degree and poly_basis are.
C2_TrigBasisHasEveryFrequency ==
    (/\ call.op = "_apply_basis"
     /\ ret.err = "none"
     /\ CoerceFlag(args.trig_basis))
    => \A c \in 1..Len(call.obs[1]) :
          LET x == call.obs[1][c]
              be == BasisEntries(ret.val, call.obs[1], c)
              trig == SelectSeq(be, LAMBDA r : r.e.trig # <<>>)
          IN  /\ {r.e : r \in ToSet(trig)}
                    = {Sin(k * x) : k \in 1..args.trig_freq}
                      \cup {Cos(k * x) : k \in 1..args.trig_freq}
              /\ Len(trig) = 2 * args.trig_freq

\* C3: whether product_terms is passed as a bool or a string, _apply_basis,
\* traj_to_state and update_state complete without error, and _apply_basis
\* returns the basis entries alone when product_terms is false and the basis
\* entries followed by the products of every pair i < j when it is true.
C3_ProductTermsIsABoolean ==
    /\ call.op \in {"_apply_basis", "traj_to_state", "update_state"}
          => ret.err = "none"
    /\ call.op = "_apply_basis"
          => LET tr == TrState(self, call.obs[1])
             IN  ret.val = IF args.product_terms.val = "true"
                           THEN tr \o PrTerms(tr) ELSE tr

\* C9: the tracked state is the lifting of the most recent observation,
\* whatever state and control update_state was given; and for the trajectory
\* made of the observations seen so far, traj_to_state equals the last row of
\* traj_to_states and equals the state reached through update_state.
C9_StateIsLiftingOfLastObservation ==
    hist # <<>> =>
        /\ kstate = apply_basis(self, Last(hist))
        /\ kstate = traj_to_state(self, hist)
        /\ LET all == traj_to_states(self, hist)
           IN  IF all.err = "none"
               THEN /\ Len(all.val) = Len(hist)
                    /\ kstate = Return(Last(all.val))
               ELSE kstate = all
        /\ (call.op = "traj_to_states" /\ ret.err = "none")
              => kstate.val = Last(ret.val)

\* A state reached by update_state calls on a trajectory whose observations
\* differ, with a lifted state to show for it.
C9_Witness ==
    /\ call.op = "update_state"
    /\ Len(hist) = MaxTrajLen
    /\ hist[Len(hist) - 1] # Last(hist)
    /\ kstate.err = "none"
    /\ Len(kstate.val) > Len(Last(hist))

(***************************************************************************)
(* Claims about training                                                   *)
(***************************************************************************)
\* The (trajectory, time step) pairs with a next step inside the trajectory
StepsOf(trajs) ==
    {it \in (1..Len(trajs)) \X (1..MaxTrajLen + 1) : it[2] < Len(trajs[it[1]].obs)}

Lift(obs) == apply_basis(self, obs).val

\* C4: X, Y and U have sum(L_i - 1) columns each; every column k holds, for one
\* trajectory i and one step t with a successor in that trajectory, the lifted
\* observation at t in X, the lifted observation at t+1 in Y and the control at
\* t in U; and every such (i, t) has its column.
C4_TrainPairsWithinTrajectory ==
    (call.op = "train" /\ ret.err = "none") =>
        LET trajs == call.trajs
            steps == StepsOf(trajs)
            N == Cardinality(steps)
            lifted == [i \in 1..Len(trajs) |->
                          [t \in 1..Len(trajs[i].obs) |-> Lift(trajs[i].obs[t])]]
            cols == [k \in 1..N |-> <<Col(X, k), Col(Y, k), Col(U, k)>>]
            pair == [it \in steps |-> <<lifted[it[1]][it[2]], lifted[it[1]][it[2] + 1],
                                        trajs[it[1]].ctrls[it[2]]>>]
        IN  /\ NumCols(X) = N /\ NumCols(Y) = N /\ NumCols(U) = N
            /\ \A k \in 1..N : \E it \in steps : cols[k] = pair[it]
            /\ \A it \in steps : \E k \in 1..N : cols[k] = pair[it]

\* Training on two trajectories that both have successor steps.
C4_Witness ==
    /\ call.op = "train"
    /\ ret.err = "none"
    /\ Len(call.trajs) = 2
    /\ \A i \in 1..2 : Len(call.trajs[i].obs) >= 2
    /\ NumCols(X) >= 2
    /\ A[1] \in DOMAIN heap

(***************************************************************************)
(* Claims about prediction                                                 *)
(***************************************************************************)
\* C5: pred returns A*state + B*ctrl; pred_diff returns that prediction with
\* Jacobians equal to A and B; to_linear returns (A, B); row r of pred_batch
\* is pred of row r of the states and row r of the controls.
C5_ModelIsLinear ==
    LET Am == heap[A[1]]
        Bm == heap[B[1]]
        Linear(state, ctrl) ==
            [r \in 1..Len(Am) |->
                Dot(Am[r], state) + Dot(Bm[r], ctrl)]
    IN  /\ call.op \in {"pred", "pred_diff"}
            => ret.val = Linear(call.state, call.ctrl)
        /\ call.op \in {"pred_diff", "to_linear"}
            => /\ heap[held.arrs[1]] = Am
               /\ heap[held.arrs[2]] = Bm
        /\ call.op = "pred_batch"
            => /\ Len(ret.val) = Len(call.states)
               /\ \A r \in 1..Len(call.states) :
                     ret.val[r] = pred(Am, Bm, call.states[r], call.ctrls[r])

\* pred_batch on a batch of two different rows.
C5_Witness ==
    /\ call.op = "pred_batch"
    /\ Len(call.states) = 2
    /\ call.states[1] # call.states[2]
    /\ ret.val[1] # ret.val[2]
    /\ heap[A[1]] # Transpose(heap[A[1]])

(***************************************************************************)
(* Claims about parameter exchange                                         *)
(***************************************************************************)
\* C7: whatever the caller does with the arrays and the dictionary it holds,
\* each model's A and B keep the values the model was last given (by train, or
\* by set_parameters, which leaves them as they were when handed the model's
\* own get_parameters); an untouched get_parameters dictionary holds the
\* model's values; and a model given another model's get_parameters has equal
\* A and B and equal pred results.
C7_ParametersAreCopies ==
    /\ \A m \in Models : Trained(m) =>
          /\ heap[A[m]] = ghost.last[m][1]
          /\ heap[B[m]] = ghost.last[m][2]
    /\ ghost.src # 0 =>
          /\ heap[held.dict[1]] = heap[A[ghost.src]]
          /\ heap[held.dict[2]] = heap[B[ghost.src]]
    /\ \A m \in Models : ghost.sync[m] # 0 =>
          LET o == ghost.sync[m]
          IN  /\ heap[A[m]] = heap[A[o]]
              /\ heap[B[m]] = heap[B[o]]
              /\ \A state \in StateSet, ctrl \in CtrlSet :
                    pred(heap[A[m]], heap[B[m]], state, ctrl)
                        = pred(heap[A[o]], heap[B[o]], state, ctrl)

\* The second model was given the first one's parameters, and the caller has
\* since overwritten an array of the dictionary it passed.
C7_Witness ==
    /\ ghost.sync[2] = 1
    /\ call.op = "mutate"
    /\ held.dict # <<>>
    /\ heap[held.dict[1]] # heap[A[1]]
    /\ held.arrs # <<>>
    /\ heap[held.arrs[2]] # heap[B[2]]

(***************************************************************************)
(* Claims about SINDy's Jacobians                                          *)
(***************************************************************************)
\* The derivative of a one-argument function
DU(f) ==
    CASE f.kind = "id"  -> SU("one", 0, f.scale)
      [] f.kind = "one" -> SU("one", 0, 0)
      [] f.kind = "pow" -> SU("pow", f.k - 1, f.scale * f.k)
      [] f.kind = "sin" -> SU("cos", f.k, f.scale * f.k)
      [] f.kind = "cos" -> SU("sin", f.k, 0 - (f.scale * f.k))

\* Two functions agree where they are sampled.
SampleVals == 1..4
SameU(f, g) == \A x \in SampleVals : EvalU(f, x) = EvalU(g, x)
SameB(f, g) == \A x \in SampleVals, y \in SampleVals : EvalB(f, x, y) = EvalB(g, x, y)

\* The derivative of a feature by variable v, at the point z
DerivAt(feat, v, z) ==
    IF Arity(feat.f) = 1 THEN EvalU(DU(feat.f), z[v + 1])
    ELSE LET a == z[feat.vars[1] + 1]
             b == z[feat.vars[2] + 1]
         IN  IF v = feat.vars[1]
             THEN EvalB([x |-> DU(feat.f.x), y |-> feat.f.y], a, b)
             ELSE EvalB([x |-> feat.f.x, y |-> DU(feat.f.y)], a, b)

\* Row i, variable v of the Jacobian of sum_idx coeff[i, idx] * feature_idx
JacobianEntry(i, v, z) ==
    LET feats == sindy.model.features
        idxs == SelectSeq([q \in 1..Len(feats) |-> q - 1],
                          LAMBDA idx : v \in ToSet(feats[idx + 1].vars))
    IN  [q \in 1..Len(idxs) |->
            Term(Coeff(i, idxs[q]), DerivAt(feats[idxs[q] + 1], v, z))]

\* C6: the gradient lists follow the library's functions in length and order
\* (identity, sin and cos per frequency 1..trig_freq, powers 2..poly_degree;
\* then the interaction functions); in every row i coeff_idx takes each of
\* 0..N-1 once, N = G1*(n+m) + G2*(n+m)*(n+m-1)/2, and never leaves that
\* range; and every entry of state_jac and ctrl_jac is the sum, in index order,
\* of coeff[i, idx] times the derivative of feature idx by that entry's
\* variable, when pred_diff reaches its return.
C6_JacobianFollowsLibraryOrder ==
    /\ sindy.trained =>
          LET lib == sindy.model.library
              one == SelectSeq(lib, LAMBDA f : Arity(f) = 1)
              two == SelectSeq(lib, LAMBDA f : Arity(f) = 2)
              F == IF sindy.trig_basis THEN sindy.trig_freq ELSE 0
              D == IF sindy.poly_basis THEN sindy.poly_degree ELSE 1
              g1 == sindy.function_gradients
              g2 == sindy.function_gradients2
          IN  /\ Len(one) = 1 + 2 * F + (D - 1)
              /\ SameU(one[1], SU("id", 1, 1))
              /\ \A f \in 1..F : /\ SameU(one[2 * f], SU("sin", f, 1))
                                 /\ SameU(one[2 * f + 1], SU("cos", f, 1))
              /\ \A d \in 2..D : SameU(one[2 * F + d], SU("pow", d, 1))
              /\ lib = one \o two
              /\ Len(g1) = Len(one)
              /\ \A g \in 1..Len(one) : SameU(g1[g], DU(one[g]))
              /\ Len(g2) = Len(two)
              /\ \A g \in 1..Len(two) :
                    /\ SameB(g2[g].d1, [x |-> DU(two[g].x), y |-> two[g].y])
                    /\ SameB(g2[g].d2, [x |-> two[g].x, y |-> DU(two[g].y)])
    /\ frame.fn = "pred_diff" => frame.loc # "IndexError"
    /\ (frame.fn = "pred_diff" /\ frame.loc = "done") =>
          LET res == frame
              r == frame.row
              n == sindy.system.obs_dim
              m == sindy.system.ctrl_dim
              G1 == Len(sindy.function_gradients)
              G2 == Len(sindy.function_gradients2)
              N == G1 * (n + m) + G2 * (((n + m) * (n + m - 1)) \div 2)
              z == caller.states[r] \o caller.ctrls[r]
          IN  /\ N = Len(sindy.model.features)
              /\ \A i \in 1..n : res.visited[i] = [q \in 1..N |-> q - 1]
              /\ \A i \in 0..(n - 1) :
                    /\ \A v \in 0..(n - 1) :
                          res.state_jac[i + 1][v + 1] = JacobianEntry(i, v, z)
                    /\ \A v \in n..(n + m - 1) :
                          res.ctrl_jac[i + 1][v - n + 1] = JacobianEntry(i, v, z)

\* pred_diff has returned for a model with both bases and two states.
C6_Witness ==
    /\ sindy.trained
    /\ sindy.trig_basis /\ sindy.trig_freq = 2
    /\ sindy.poly_basis /\ sindy.poly_degree = 3
    /\ sindy.system.obs_dim = 2
    /\ caller.single[1].done
    /\ Len(caller.single[1].state_jac[2][1]) > 1

\* C8: pred_diff_parallel returns Jacobians of shapes (p, n, n) and (p, n, m)
\* whose slice r is what pred_diff returns for row r of the batch, built from
\* the same coefficient indices.
C8_ParallelIsBatchedPredDiff ==
    /\ frame.fn = "pred_diff_parallel" => frame.loc # "IndexError"
    /\ caller.par.done =>
          LET p == Len(caller.states)
              n == sindy.system.obs_dim
              m == sindy.system.ctrl_dim
          IN  /\ Len(caller.par.state_jac) = p
              /\ Len(caller.par.ctrl_jac) = p
              /\ \A r \in 1..p :
                    /\ Len(caller.par.state_jac[r]) = n
                    /\ Len(caller.par.ctrl_jac[r]) = n
                    /\ \A i \in 1..n : /\ Len(caller.par.state_jac[r][i]) = n
                                       /\ Len(caller.par.ctrl_jac[r][i]) = m
                    /\ caller.single[r].done =>
                          /\ caller.par.state_jac[r] = caller.single[r].state_jac
                          /\ caller.par.ctrl_jac[r] = caller.single[r].ctrl_jac
                          /\ caller.par.visited = caller.single[r].visited

\* Both rows of a batch of two different rows differentiated both ways.
C8_Witness ==
    /\ caller.par.done
    /\ Len(caller.states) = 2
    /\ caller.states[1] # caller.states[2]
    /\ caller.single[1].done /\ caller.single[2].done
    /\ caller.single[1].state_jac # caller.single[2].state_jac
    /\ sindy.trig_basis /\ sindy.poly_basis

====
